---- MODULE Spec2Model ----
(***************************************************************************)
(* Library backend (admin-gzx/library): the Book / BorrowRecord tables,    *)
(* the Redis detail and list caches, and the request handlers of           *)
(* src/library/views.py with the validators of src/library/serializers.py. *)
(*                                                                         *)
(* Every handler is split at its data-store and cache calls: a worker      *)
(* holds the handler's local variables (the model instances it loaded)     *)
(* between two calls, and workers interleave at those calls, as the        *)
(* request threads of the server do.  settings.py configures neither       *)
(* ATOMIC_REQUESTS nor any transaction, and views.py uses no               *)
(* transaction.atomic / select_for_update, so every ORM call commits on    *)
(* its own.                                                                *)
(*                                                                         *)
(* Abstractions: a Book row is (total_copies, available_copies); a         *)
(* BorrowRecord row is (book, borrow_date, return_date).  due_date and     *)
(* the reader are only read by the validators at write time, so they are   *)
(* request inputs and are not stored.  Dates are small integers.           *)
(***************************************************************************)
EXTENDS Integers, FiniteSets

\* ---- bounds ----
NumWorkers == 2
NumBooks == 1
MaxRecords == 2
MaxCopies == 2
MaxDate == 2

Workers == 1..NumWorkers
Books == 1..NumBooks
RecIds == 1..MaxRecords
Dates == 1..MaxDate
Counts == 0..MaxCopies
\* the model stops a return that would push available_copies past this cap
AvailCap == MaxCopies + 1

\* return_date = NULL, and "field not supplied" in a request
Null == 0
OptDates == {Null} \cup Dates

VARIABLES
    book,   \* Book table: id -> [ex, total, avail]
    rec,    \* BorrowRecord table: id -> [ex, book, bd, rd]
    cache,  \* Redis key library:books:{id} -> [hit, total, avail]
    listCache, \* Redis key of a list response -> [hit, rows]
    redisUp,\* whether settings.REDIS_CONNECTION reaches the Redis server
    now,    \* the server clock (timezone.now())
    req,    \* per worker: the request it serves and the handler's locals
    last    \* the request completed most recently (sequential runs only)

vars == <<book, rec, cache, listCache, redisUp, now, req, last>>

NoBook == [ex |-> FALSE, total |-> 0, avail |-> 0]
NoRec == [ex |-> FALSE, book |-> 0, bd |-> 0, rd |-> 0]
Miss == [hit |-> FALSE, total |-> 0, avail |-> 0]
BookRow(t, a) == [ex |-> TRUE, total |-> t, avail |-> a]
RecRow(b, bd, rd) == [ex |-> TRUE, book |-> b, bd |-> bd, rd |-> rd]
Entry(t, a) == [hit |-> TRUE, total |-> t, avail |-> a]

\* the key of the cached list response: f"{CACHE_PREFIX}books:list"
ListKey == "library:books:list"
ListKeys == {ListKey}
NoRows == [b \in Books |-> NoBook]
ListMiss == [hit |-> FALSE, rows |-> NoRows]
ListEntry(rows) == [hit |-> TRUE, rows |-> rows]

\* op: the endpoint; pc: the next call of its handler; book, rid: the ids in
\* the request; bd, dd, rd: the dates in the request body (then the local
\* record instance); lt, la: the local Book instance; resp: the response;
\* made: the id of the BorrowRecord the response reports as created; q: the
\* filter of a list request; rows: the rows of a list response; sp: how the
\* body of a borrow request spells the Book id.
Idle ==
    [pc |-> "idle", op |-> "none", book |-> 0, rid |-> 0, bd |-> 0, dd |-> 0,
     rd |-> 0, lt |-> 0, la |-> 0, resp |-> "none", made |-> 0, q |-> 0,
     rows |-> NoRows, sp |-> "plain"]
NoLast == [made |-> 0, la |-> 0]

Set(p, r) == req' = [req EXCEPT ![p] = r]
Respond(p, code) ==
    Set(p, [req[p] EXCEPT !.pc = "done", !.resp = code, !.dd = 0, !.lt = 0, !.sp = "plain"])

\* a deleted BorrowRecord: its id is not given out again
Gone == [ex |-> FALSE, book |-> 0, bd |-> 0, rd |-> 0 - 1]
FreeRecIds == {r \in RecIds : rec[r] = NoRec}
\* a deleted Book: its id is not given out again
GoneBook == [ex |-> FALSE, total |-> 0, avail |-> 0 - 1]
FreeBookIds == {b \in Books : book[b] = NoBook}
Min(S) == CHOOSE x \in S : \A y \in S : x <= y
InFlightInserts == {q \in Workers : req[q].pc \in {"cb_validate", "cb_get", "cb_save", "cb_insert"}}

Init ==
    /\ book = [b \in Books |-> NoBook]
    /\ rec = [r \in RecIds |-> NoRec]
    /\ cache = [b \in Books |-> Miss]
    /\ listCache = [k \in ListKeys |-> ListMiss]
    /\ redisUp = TRUE
    /\ now = 1
    /\ req = [p \in Workers |-> Idle]
    /\ last = NoLast

\* ---- the checks and updates of the handlers ----

\* BorrowRecordSerializer.validate: borrow_date must not be after due_date
DatesInvalid(bd, dd) == bd > dd

\* BorrowRecordSerializer.validate: a new borrow of a book without copies
SerializerNoCopies(a) == a <= 0

\* a check that lets a book with no copy through
ViewNoCopiesStrict(a) == a < 0

\* BorrowRecordViewSet.create: if book.available_copies <= 0
ViewNoCopies(a) == a <= 0

\* a borrow that forgets the decrement
NoDecrement(a) == a

\* BorrowRecordViewSet.create: book.available_copies -= 1
Decrement(a) == a - 1

\* BorrowRecordViewSet.return_book: if borrow_record.return_date
AlreadyReturned(rd) == rd # Null

\* a return that forgets the increment
NoIncrement(a) == a

\* BorrowRecordViewSet.return_book: book.available_copies += 1
Increment(a) == a + 1

\* ---- the keys of the detail cache ----

\* The body of a borrow request spells the Book id as the client likes: the
\* plain decimal numeral (1, "1") or another numeral of the same id ("01").
\* The relation field and Book.objects.get(id=...) parse either to the id.
Spellings == {"plain", "padded"}

\* f"{CACHE_PREFIX}books:{book_id}": the URL of a detail read or update and
\* book.id give the plain numeral, whose key is the cache entry of the Book;
\* any other spelling formats to a key that no detail read uses
NoKey == 0
DetailKey(b, sp) == IF sp = "plain" THEN b ELSE NoKey

\* a delete that empties the whole detail cache
Flush(c, k) == [x \in DOMAIN c |-> Miss]

\* REDIS_CONNECTION.delete(key)
Delete(c, k) == [x \in DOMAIN c |-> IF x = k THEN Miss ELSE c[x]]

\* ---- POST /borrows/ : BorrowRecordViewSet.create ----

StartBorrow(p) ==
    /\ req[p].pc = "idle"
    /\ Cardinality(FreeRecIds) > Cardinality(InFlightInserts)
    /\ \E b \in Books, bd \in Dates, dd \in Dates, rd \in OptDates, sp \in Spellings :
           Set(p, [Idle EXCEPT !.pc = "cb_validate", !.op = "create_borrow",
                               !.book = b, !.bd = bd, !.dd = dd, !.rd = rd, !.sp = sp])
    /\ UNCHANGED <<book, rec, cache, listCache, redisUp, now, last>>

\* serializer.is_valid: the book field loads the Book, then validate() runs
CbValidate(p) ==
    /\ req[p].pc = "cb_validate"
    /\ LET r == req[p] IN
       IF ~book[r.book].ex \/ DatesInvalid(r.bd, r.dd)
       THEN Respond(p, "400:invalid")
       ELSE IF SerializerNoCopies(book[r.book].avail)
       THEN Respond(p, "400:no_copies")
       ELSE Set(p, [r EXCEPT !.pc = "cb_get", !.dd = 0])
    /\ UNCHANGED <<book, rec, cache, listCache, redisUp, now, last>>

\* Book.objects.get(id=book_id) and the check of available_copies
CbGet(p) ==
    /\ req[p].pc = "cb_get"
    /\ LET r == req[p] IN
       IF ~book[r.book].ex
       THEN Respond(p, "404")
       ELSE IF ViewNoCopies(book[r.book].avail)
       THEN Respond(p, "400:no_copies")
       ELSE Set(p, [r EXCEPT !.pc = "cb_save", !.lt = book[r.book].total,
                             !.la = book[r.book].avail])
    /\ UNCHANGED <<book, rec, cache, listCache, redisUp, now, last>>

\* book.available_copies -= 1; book.save() writes the local instance
CbSave(p) ==
    /\ req[p].pc = "cb_save"
    /\ book' = [book EXCEPT ![req[p].book] = BookRow(req[p].lt, Decrement(req[p].la))]
    /\ Set(p, [req[p] EXCEPT !.pc = "cb_insert"])
    /\ UNCHANGED <<rec, cache, listCache, redisUp, now, last>>

\* perform_create: the record is inserted with the validated fields, among
\* them return_date, which the serializer leaves writable
CbInsert(p) ==
    /\ req[p].pc = "cb_insert"
    /\ FreeRecIds # {}
    /\ LET id == Min(FreeRecIds) IN
       /\ rec' = [rec EXCEPT ![id] = RecRow(req[p].book, req[p].bd, req[p].rd)]
       /\ Set(p, [req[p] EXCEPT !.pc = "cb_cache", !.made = id])
    /\ UNCHANGED <<book, cache, listCache, redisUp, now, last>>

\* the two REDIS_CONNECTION.delete calls, the second with the key formatted
\* from request.data.get('book'), then the 201 response; a delete that
\* raises (Redis unreachable) is not caught and ends the request
CbCache(p) ==
    /\ req[p].pc = "cb_cache"
    /\ IF redisUp
       THEN /\ listCache' = [listCache EXCEPT ![ListKey] = ListMiss]
            /\ cache' = Delete(cache, DetailKey(req[p].book, req[p].sp))
            /\ Respond(p, "201")
       ELSE /\ UNCHANGED <<cache, listCache>>
            /\ Respond(p, "500")
    /\ UNCHANGED <<book, rec, redisUp, now, last>>

\* ---- POST /borrows/{id}/return_book/ : BorrowRecordViewSet.return_book ----

\* the body may carry return_date (rd); the handler never reads it
StartReturn(p) ==
    /\ req[p].pc = "idle"
    /\ \E r \in RecIds, rd \in OptDates :
           Set(p, [Idle EXCEPT !.pc = "rb_get", !.op = "return_book",
                               !.rid = r, !.rd = rd])
    /\ UNCHANGED <<book, rec, cache, listCache, redisUp, now, last>>

\* get_object() and the already-returned check
RbGet(p) ==
    /\ req[p].pc = "rb_get"
    /\ LET r == req[p] IN
       IF ~rec[r.rid].ex
       THEN Respond(p, "404")
       ELSE IF AlreadyReturned(rec[r.rid].rd)
       THEN Respond(p, "400:returned")
       ELSE Set(p, [r EXCEPT !.pc = "rb_saverec", !.book = rec[r.rid].book,
                             !.bd = rec[r.rid].bd])
    /\ UNCHANGED <<book, rec, cache, listCache, redisUp, now, last>>

\* borrow_record.return_date = timezone.now(); borrow_record.save()
RbSaveRec(p) ==
    /\ req[p].pc = "rb_saverec"
    /\ rec' = [rec EXCEPT ![req[p].rid] = RecRow(req[p].book, req[p].bd, now)]
    /\ Set(p, [req[p] EXCEPT !.pc = "rb_getbook"])
    /\ UNCHANGED <<book, cache, listCache, redisUp, now, last>>

\* book = borrow_record.book: the related Book is loaded here
RbGetBook(p) ==
    /\ req[p].pc = "rb_getbook"
    /\ Set(p, [req[p] EXCEPT !.pc = "rb_savebook", !.lt = book[req[p].book].total,
                             !.la = book[req[p].book].avail])
    /\ UNCHANGED <<book, rec, cache, listCache, redisUp, now, last>>

\* book.available_copies += 1; book.save()
RbSaveBook(p) ==
    /\ req[p].pc = "rb_savebook"
    /\ Increment(req[p].la) <= AvailCap
    /\ book' = [book EXCEPT ![req[p].book] = BookRow(req[p].lt, Increment(req[p].la))]
    /\ Set(p, [req[p] EXCEPT !.pc = "rb_cache"])
    /\ UNCHANGED <<rec, cache, listCache, redisUp, now, last>>

RbCache(p) ==
    /\ req[p].pc = "rb_cache"
    /\ IF redisUp
       THEN /\ listCache' = [listCache EXCEPT ![ListKey] = ListMiss]
            /\ cache' = Delete(cache, DetailKey(req[p].book, "plain"))
            /\ Respond(p, "200")
       ELSE /\ UNCHANGED <<cache, listCache>>
            /\ Respond(p, "500")
    /\ UNCHANGED <<book, rec, redisUp, now, last>>

\* ---- GET /books/{id}/ : BookViewSet.retrieve ----

\* REDIS_CONNECTION.get(cache_key): a hit is returned as it is
RtGet(p) ==
    /\ req[p].pc = "idle"
    /\ \E b \in Books :
        IF ~redisUp
        THEN Set(p, [Idle EXCEPT !.pc = "done", !.op = "retrieve", !.book = b,
                                 !.resp = "500"])
        ELSE IF cache[b].hit
        THEN Set(p, [Idle EXCEPT !.pc = "done", !.op = "retrieve", !.book = b,
                                 !.la = cache[b].avail, !.resp = "200"])
        ELSE Set(p, [Idle EXCEPT !.pc = "rt_db", !.op = "retrieve", !.book = b])
    /\ UNCHANGED <<book, rec, cache, listCache, redisUp, now, last>>

\* super().retrieve: the row is read from the data store
RtDb(p) ==
    /\ req[p].pc = "rt_db"
    /\ LET r == req[p] IN
       IF ~book[r.book].ex
       THEN Respond(p, "404")
       ELSE Set(p, [r EXCEPT !.pc = "rt_set", !.lt = book[r.book].total,
                             !.la = book[r.book].avail])
    /\ UNCHANGED <<book, rec, cache, listCache, redisUp, now, last>>

\* REDIS_CONNECTION.setex(cache_key, 600, ...) with the row read before
RtSet(p) ==
    /\ req[p].pc = "rt_set"
    /\ IF redisUp
       THEN /\ cache' = [cache EXCEPT ![req[p].book] = Entry(req[p].lt, req[p].la)]
            /\ Respond(p, "200")
       ELSE /\ UNCHANGED cache
            /\ Respond(p, "500")
    /\ UNCHANGED <<book, rec, listCache, redisUp, now, last>>

\* the 600 s time-to-live of an entry runs out
CacheExpire ==
    /\ \E b \in Books :
        /\ cache[b].hit
        /\ cache' = [cache EXCEPT ![b] = Miss]
    /\ UNCHANGED <<book, rec, listCache, redisUp, now, req, last>>

\* ---- GET /books/?category=c : BookViewSet.list ----

\* filterset_fields = ['category', ...]: a list request carries no filter or
\* a category.  A Book keeps the category it was created with; the Book with
\* id b has category Category(b).  (The whole table fits on one page.)
NumCategories == 2
Categories == 1..NumCategories
NoFilter == 0
Queries == {NoFilter} \cup Categories
Category(b) == 1 + (b % NumCategories)

\* super().list: the filter applied to Book.objects.all()
Evaluate(q) ==
    [b \in DOMAIN book |->
        IF book[b].ex /\ (q = NoFilter \/ Category(b) = q) THEN book[b] ELSE NoBook]

\* cache_key = f"{CACHE_PREFIX}books:list", whatever the query parameters
ListCacheKey(q) == ListKey

\* REDIS_CONNECTION.get(cache_key): a hit is returned as it is
BlGet(p) ==
    /\ req[p].pc = "idle"
    /\ \E q \in Queries :
        IF ~redisUp
        THEN Set(p, [Idle EXCEPT !.pc = "done", !.op = "book_list", !.q = q,
                                 !.resp = "500"])
        ELSE IF listCache[ListCacheKey(q)].hit
        THEN Set(p, [Idle EXCEPT !.pc = "done", !.op = "book_list", !.q = q,
                                 !.rows = listCache[ListCacheKey(q)].rows,
                                 !.resp = "200"])
        ELSE Set(p, [Idle EXCEPT !.pc = "bl_db", !.op = "book_list", !.q = q])
    /\ UNCHANGED <<book, rec, cache, listCache, redisUp, now, last>>

\* super().list: the query is evaluated on the data store
BlDb(p) ==
    /\ req[p].pc = "bl_db"
    /\ Set(p, [req[p] EXCEPT !.pc = "bl_set", !.rows = Evaluate(req[p].q)])
    /\ UNCHANGED <<book, rec, cache, listCache, redisUp, now, last>>

\* REDIS_CONNECTION.setex(cache_key, 600, ...) with the response
BlSet(p) ==
    /\ req[p].pc = "bl_set"
    /\ IF redisUp
       THEN /\ listCache' = [listCache EXCEPT ![ListCacheKey(req[p].q)] =
                                ListEntry(req[p].rows)]
            /\ Respond(p, "200")
       ELSE /\ UNCHANGED listCache
            /\ Respond(p, "500")
    /\ UNCHANGED <<book, rec, cache, redisUp, now, last>>

\* the 600 s time-to-live of a list entry runs out
ListExpire ==
    /\ \E k \in ListKeys :
        /\ listCache[k].hit
        /\ listCache' = [listCache EXCEPT ![k] = ListMiss]
    /\ UNCHANGED <<book, rec, cache, redisUp, now, req, last>>

\* ---- POST /books/, PUT/PATCH /books/{id}/ : BookViewSet.create, update ----

\* a field the request does not carry (PATCH)
Absent == 0 - 1
OptCounts == Counts \cup {Absent}
Given(x) == IF x = Absent THEN 0 ELSE x

\* BookSerializer.validate: data.get('available_copies', 0) > data.get('total_copies', 0)
BookInvalid(t, a) == Given(a) > Given(t)

\* super().create: validation, then the insert
BcCreate(p) ==
    /\ req[p].pc = "idle"
    /\ FreeBookIds # {}
    /\ \E t \in Counts, a \in Counts :
        IF BookInvalid(t, a)
        THEN /\ Set(p, [Idle EXCEPT !.pc = "done", !.op = "book_create", !.resp = "400:invalid"])
             /\ UNCHANGED book
        ELSE /\ book' = [book EXCEPT ![Min(FreeBookIds)] = BookRow(t, a)]
             /\ Set(p, [Idle EXCEPT !.pc = "bc_cache", !.op = "book_create",
                                    !.book = Min(FreeBookIds)])
    /\ UNCHANGED <<rec, cache, listCache, redisUp, now, last>>

\* REDIS_CONNECTION.delete of the list key
BcCache(p) ==
    /\ req[p].pc = "bc_cache"
    /\ IF redisUp
       THEN /\ listCache' = [listCache EXCEPT ![ListKey] = ListMiss]
            /\ Respond(p, "201")
       ELSE /\ UNCHANGED listCache
            /\ Respond(p, "500")
    /\ UNCHANGED <<book, rec, cache, redisUp, now, last>>

\* super().update: get_object(), validation of the request's fields, and the
\* instance with the supplied fields set; PUT carries both counts, PATCH any
\* (lt, la: the counts the row has, or would have had, after the write)
BuGet(p) ==
    /\ req[p].pc = "idle"
    /\ \E b \in Books, partial \in BOOLEAN, t \in OptCounts, a \in OptCounts :
        /\ partial \/ (t # Absent /\ a # Absent)
        /\ IF ~book[b].ex
           THEN Set(p, [Idle EXCEPT !.pc = "done", !.op = "book_update", !.book = b,
                                    !.resp = "404"])
           ELSE IF BookInvalid(t, a)
           THEN Set(p, [Idle EXCEPT !.pc = "done", !.op = "book_update", !.book = b,
                                    !.lt = IF t = Absent THEN book[b].total ELSE t,
                                    !.la = IF a = Absent THEN book[b].avail ELSE a,
                                    !.resp = "400:invalid"])
           ELSE Set(p, [Idle EXCEPT !.pc = "bu_save", !.op = "book_update", !.book = b,
                                    !.lt = IF t = Absent THEN book[b].total ELSE t,
                                    !.la = IF a = Absent THEN book[b].avail ELSE a])
    /\ UNCHANGED <<book, rec, cache, listCache, redisUp, now, last>>

\* serializer.save(): instance.save() writes the local instance
BuSave(p) ==
    /\ req[p].pc = "bu_save"
    /\ book' = [book EXCEPT ![req[p].book] = BookRow(req[p].lt, req[p].la)]
    /\ Set(p, [req[p] EXCEPT !.pc = "bu_cache"])
    /\ UNCHANGED <<rec, cache, listCache, redisUp, now, last>>

BuCache(p) ==
    /\ req[p].pc = "bu_cache"
    /\ IF redisUp
       THEN /\ listCache' = [listCache EXCEPT ![ListKey] = ListMiss]
            /\ cache' = Delete(cache, DetailKey(req[p].book, "plain"))
            /\ Respond(p, "200")
       ELSE /\ UNCHANGED <<cache, listCache>>
            /\ Respond(p, "500")
    /\ UNCHANGED <<book, rec, redisUp, now, last>>

\* ---- DELETE /books/{id}/ : BookViewSet.destroy ----

\* get_object(); the model deletes Books that no BorrowRecord references
BdGet(p) ==
    /\ req[p].pc = "idle"
    /\ \E b \in Books :
        /\ \A r \in RecIds : rec[r].ex => rec[r].book # b
        /\ IF ~book[b].ex
           THEN Set(p, [Idle EXCEPT !.pc = "done", !.op = "book_destroy", !.book = b,
                                    !.resp = "404"])
           ELSE Set(p, [Idle EXCEPT !.pc = "bd_delete", !.op = "book_destroy", !.book = b])
    /\ UNCHANGED <<book, rec, cache, listCache, redisUp, now, last>>

\* super().destroy: instance.delete()
BdDelete(p) ==
    /\ req[p].pc = "bd_delete"
    /\ book' = [book EXCEPT ![req[p].book] = GoneBook]
    /\ Set(p, [req[p] EXCEPT !.pc = "bd_cache"])
    /\ UNCHANGED <<rec, cache, listCache, redisUp, now, last>>

BdCache(p) ==
    /\ req[p].pc = "bd_cache"
    /\ IF redisUp
       THEN /\ listCache' = [listCache EXCEPT ![ListKey] = ListMiss]
            /\ cache' = Delete(cache, DetailKey(req[p].book, "plain"))
            /\ Respond(p, "204")
       ELSE /\ UNCHANGED <<cache, listCache>>
            /\ Respond(p, "500")
    /\ UNCHANGED <<book, rec, redisUp, now, last>>

\* ---- PUT/PATCH /borrows/{id}/ : ModelViewSet.update with BorrowRecordSerializer ----

\* return_date not in the request, as opposed to return_date: null
Keep == 0 - 1

\* get_object(), the field checks (a PUT carries book and both dates, a PATCH
\* any of them; a book that is named must exist) and validate(), which
\* indexes data['borrow_date'] and data['due_date'] whether or not the
\* request carries them
RuGet(p) ==
    /\ req[p].pc = "idle"
    /\ \E r \in RecIds, partial \in BOOLEAN, b \in Books \cup {Absent},
          bd \in Dates \cup {Absent}, dd \in Dates \cup {Absent}, rd \in OptDates \cup {Keep} :
        IF ~rec[r].ex
        THEN Set(p, [Idle EXCEPT !.pc = "done", !.op = "borrow_update", !.rid = r,
                                 !.resp = "404"])
        ELSE IF \/ ~partial /\ (b = Absent \/ bd = Absent \/ dd = Absent)
                \/ b # Absent /\ ~book[b].ex
        THEN Set(p, [Idle EXCEPT !.pc = "done", !.op = "borrow_update", !.rid = r,
                                 !.resp = "400:invalid"])
        ELSE IF bd = Absent \/ dd = Absent
        THEN Set(p, [Idle EXCEPT !.pc = "done", !.op = "borrow_update", !.rid = r,
                                 !.resp = "500"])
        ELSE IF DatesInvalid(bd, dd)
        THEN Set(p, [Idle EXCEPT !.pc = "done", !.op = "borrow_update", !.rid = r,
                                 !.resp = "400:invalid"])
        ELSE Set(p, [Idle EXCEPT !.pc = "ru_save", !.op = "borrow_update", !.rid = r,
                                 !.book = IF b = Absent THEN rec[r].book ELSE b,
                                 !.bd = bd,
                                 !.rd = IF rd = Keep THEN rec[r].rd ELSE rd])
    /\ UNCHANGED <<book, rec, cache, listCache, redisUp, now, last>>

\* serializer.save(): the record is written with the validated fields
RuSave(p) ==
    /\ req[p].pc = "ru_save"
    /\ rec' = [rec EXCEPT ![req[p].rid] = RecRow(req[p].book, req[p].bd, req[p].rd)]
    /\ Respond(p, "200")
    /\ UNCHANGED <<book, cache, listCache, redisUp, now, last>>

\* ---- DELETE /borrows/{id}/ : ModelViewSet.destroy ----

\* get_object()
RdGet(p) ==
    /\ req[p].pc = "idle"
    /\ \E r \in RecIds :
        IF ~rec[r].ex
        THEN Set(p, [Idle EXCEPT !.pc = "done", !.op = "borrow_delete", !.rid = r,
                                 !.resp = "404"])
        ELSE Set(p, [Idle EXCEPT !.pc = "rd_delete", !.op = "borrow_delete", !.rid = r])
    /\ UNCHANGED <<book, rec, cache, listCache, redisUp, now, last>>

\* perform_destroy: instance.delete(); the view is not overridden, so no
\* Book is touched
RdDelete(p) ==
    /\ req[p].pc = "rd_delete"
    /\ rec' = [rec EXCEPT ![req[p].rid] = Gone]
    /\ Respond(p, "204")
    /\ UNCHANGED <<book, cache, listCache, redisUp, now, last>>

\* ---- the environment ----

Tick ==
    /\ now < MaxDate
    /\ now' = now + 1
    /\ UNCHANGED <<book, rec, cache, listCache, redisUp, req, last>>

\* the Redis server becomes unreachable, and reachable again: every call on
\* REDIS_CONNECTION raises while it is down, and no handler catches it
RedisDown ==
    /\ redisUp
    /\ redisUp' = FALSE
    /\ UNCHANGED <<book, rec, cache, listCache, now, req, last>>

RedisUp ==
    /\ ~redisUp
    /\ redisUp' = TRUE
    /\ UNCHANGED <<book, rec, cache, listCache, now, req, last>>

\* the client has read the response; the worker takes the next request
Finish(p) ==
    /\ req[p].pc = "done"
    /\ Set(p, Idle)
    /\ UNCHANGED <<book, rec, cache, listCache, redisUp, now, last>>

\* the same, in a run where the requests are served one at a time: the
\* completed request is remembered until the next one completes
FinishSeq(p) ==
    /\ req[p].pc = "done"
    /\ last' = IF req[p].op = "create_borrow" /\ req[p].resp = "201"
               THEN [made |-> req[p].made, la |-> req[p].la]
               ELSE NoLast
    /\ Set(p, Idle)
    /\ UNCHANGED <<book, rec, cache, listCache, redisUp, now>>

Borrow(p) ==
    \/ StartBorrow(p) \/ CbValidate(p) \/ CbGet(p) \/ CbSave(p) \/ CbInsert(p) \/ CbCache(p)

Return(p) ==
    \/ StartReturn(p) \/ RbGet(p) \/ RbSaveRec(p) \/ RbGetBook(p) \/ RbSaveBook(p) \/ RbCache(p)

Retrieve(p) == RtGet(p) \/ RtDb(p) \/ RtSet(p)

BookList(p) == BlGet(p) \/ BlDb(p) \/ BlSet(p)

BookCreate(p) == BcCreate(p) \/ BcCache(p)

BookUpdate(p) == BuGet(p) \/ BuSave(p) \/ BuCache(p)

BookDestroy(p) == BdGet(p) \/ BdDelete(p) \/ BdCache(p)

BorrowUpdate(p) == RuGet(p) \/ RuSave(p)

BorrowDelete(p) == RdGet(p) \/ RdDelete(p)

\* requests served concurrently by the workers, Redis reachable throughout
\* (Book and BorrowRecord updates are left to the sequential runs below)
Next ==
    \/ CacheExpire
    \/ \E p \in Workers :
        \/ Borrow(p) \/ Return(p) \/ Retrieve(p) \/ BookCreate(p) \/ Finish(p)

Spec == Init /\ [][Next]_vars

\* requests served one at a time: one worker serves them all, the others
\* stay idle
NextSeq ==
    \/ Tick
    \/ RedisDown
    \/ RedisUp
    \/ CacheExpire
    \/ \E p \in {1} :
        \/ Borrow(p) \/ Return(p) \/ Retrieve(p) \/ BookCreate(p)
        \/ BookUpdate(p) \/ BorrowUpdate(p) \/ FinishSeq(p)

SpecSeq == Init /\ [][NextSeq]_vars

\* ---- the Book endpoints, borrows and returns served one at a time, Redis
\* ---- reachable throughout ----

NextCachedSeq ==
    \/ CacheExpire
    \/ \E p \in {1} :
        \/ Borrow(p) \/ Return(p) \/ Retrieve(p) \/ BookCreate(p)
        \/ BookUpdate(p) \/ BookDestroy(p) \/ FinishSeq(p)

SpecCachedSeq == Init /\ [][NextCachedSeq]_vars

\* ---- borrows, returns and Book updates served one at a time on a Book
\* ---- that BookViewSet.create has accepted ----

InitEngine ==
    /\ \E t \in Counts, a \in Counts :
           /\ ~BookInvalid(t, a)
           /\ book = [b \in Books |-> IF b = 1 THEN BookRow(t, a) ELSE NoBook]
    /\ rec = [r \in RecIds |-> NoRec]
    /\ cache = [b \in Books |-> Miss]
    /\ listCache = [k \in ListKeys |-> ListMiss]
    /\ redisUp = TRUE
    /\ now = 1
    /\ req = [p \in Workers |-> Idle]
    /\ last = NoLast

NextEngineSeq ==
    \E p \in {1} : Borrow(p) \/ Return(p) \/ BookUpdate(p) \/ FinishSeq(p)

SpecEngineSeq == InitEngine /\ [][NextEngineSeq]_vars

\* ---- the borrows endpoints alone, served one at a time, on a Book whose
\* ---- missing copies are exactly its Active records ----

ActiveRecords(b) == {r \in RecIds : rec[r].ex /\ rec[r].book = b /\ rec[r].rd = Null}

InitConserved ==
    /\ \E t \in Counts, n \in {0, 1}, bd \in Dates :
           /\ n <= t
           /\ book = [b \in Books |-> IF b = 1 THEN BookRow(t, t - n) ELSE NoBook]
           /\ rec = [r \in RecIds |-> IF r <= n THEN RecRow(1, bd, Null) ELSE NoRec]
    /\ cache = [b \in Books |-> Miss]
    /\ listCache = [k \in ListKeys |-> ListMiss]
    /\ redisUp = TRUE
    /\ now = 1
    /\ req = [p \in Workers |-> Idle]
    /\ last = NoLast

NextBorrowsSeq ==
    \E p \in {1} :
        Borrow(p) \/ Return(p) \/ BorrowUpdate(p) \/ BorrowDelete(p) \/ FinishSeq(p)

SpecBorrowsSeq == InitConserved /\ [][NextBorrowsSeq]_vars

\* ---- list reads between borrows, served one at a time ----

NextListSeq ==
    \/ ListExpire
    \/ \E p \in {1} : BookList(p) \/ Borrow(p) \/ FinishSeq(p)

SpecListSeq == InitEngine /\ [][NextListSeq]_vars

\* ---- every worker holds a borrow request for the same, fresh Book ----

BorrowRequest(b, bd, dd, rd) ==
    [Idle EXCEPT !.pc = "cb_validate", !.op = "create_borrow",
                 !.book = b, !.bd = bd, !.dd = dd, !.rd = rd]

InitBorrowRace ==
    /\ \E k \in Counts : book = [b \in Books |-> IF b = 1 THEN BookRow(k, k) ELSE NoBook]
    /\ rec = [r \in RecIds |-> NoRec]
    /\ cache = [b \in Books |-> Miss]
    /\ listCache = [k \in ListKeys |-> ListMiss]
    /\ redisUp = TRUE
    /\ now = 1
    /\ req \in [Workers -> {BorrowRequest(1, bd, bd, Null) : bd \in Dates}]
    /\ last = NoLast

NextBorrowRace ==
    \E p \in Workers :
        CbValidate(p) \/ CbGet(p) \/ CbSave(p) \/ CbInsert(p) \/ CbCache(p)

SpecBorrowRace == InitBorrowRace /\ [][NextBorrowRace]_vars

\* ---- every worker holds a return request for the same Active record ----

ReturnRequest(r, rd) ==
    [Idle EXCEPT !.pc = "rb_get", !.op = "return_book", !.rid = r, !.rd = rd]

InitReturnRace ==
    /\ \E t \in 1..MaxCopies :
           book = [b \in Books |-> IF b = 1 THEN BookRow(t, t - 1) ELSE NoBook]
    /\ \E bd \in Dates :
           rec = [r \in RecIds |-> IF r = 1 THEN RecRow(1, bd, Null) ELSE NoRec]
    /\ cache = [b \in Books |-> Miss]
    /\ listCache = [k \in ListKeys |-> ListMiss]
    /\ redisUp = TRUE
    /\ now \in Dates
    /\ req = [p \in Workers |-> ReturnRequest(1, Null)]
    /\ last = NoLast

NextReturnRace ==
    \E p \in Workers :
        RbGet(p) \/ RbSaveRec(p) \/ RbGetBook(p) \/ RbSaveBook(p) \/ RbCache(p)

SpecReturnRace == InitReturnRace /\ [][NextReturnRace]_vars

\* ---- the scenario of a Book with two copies: well-formed borrows of the
\* ---- Book and returns of its first record, served one at a time ----

\* a borrow is sent while the table has room for its record, or while the
\* Book has no copy (create then inserts nothing)
ScenarioBorrow(p) ==
    /\ req[p].pc = "idle"
    /\ FreeRecIds # {} \/ book[1].avail = 0
    /\ \E bd \in Dates, dd \in Dates :
           /\ ~DatesInvalid(bd, dd)
           /\ Set(p, BorrowRequest(1, bd, dd, Null))
    /\ UNCHANGED <<book, rec, cache, listCache, redisUp, now, last>>

ScenarioReturn(p) ==
    /\ req[p].pc = "idle"
    /\ Set(p, ReturnRequest(1, Null))
    /\ UNCHANGED <<book, rec, cache, listCache, redisUp, now, last>>

InitScenario ==
    /\ book = [b \in Books |-> IF b = 1 THEN BookRow(2, 2) ELSE NoBook]
    /\ rec = [r \in RecIds |-> NoRec]
    /\ cache = [b \in Books |-> Miss]
    /\ listCache = [k \in ListKeys |-> ListMiss]
    /\ redisUp = TRUE
    /\ now \in Dates
    /\ req = [p \in Workers |-> Idle]
    /\ last = NoLast

NextScenario ==
    \E p \in {1} :
        \/ ScenarioBorrow(p) \/ CbValidate(p) \/ CbGet(p) \/ CbSave(p) \/ CbInsert(p)
        \/ CbCache(p)
        \/ ScenarioReturn(p) \/ RbGet(p) \/ RbSaveRec(p) \/ RbGetBook(p) \/ RbSaveBook(p)
        \/ RbCache(p)
        \/ FinishSeq(p)

SpecScenario == InitScenario /\ [][NextScenario]_vars

\* ---- one request on the Books and records of the model, next to a
\* ---- further Book with an Active record and a cached detail entry that
\* ---- the request does not name ----

OtherBook == NumBooks + 1
OtherRec == MaxRecords + 1

InitFrame ==
    /\ \E t \in Counts, a \in Counts, hit \in BOOLEAN :
           /\ ~BookInvalid(t, a)
           /\ book = [b \in Books \cup {OtherBook} |->
                         IF b = 1 THEN BookRow(t, a)
                         ELSE IF b = OtherBook THEN BookRow(MaxCopies, MaxCopies - 1)
                         ELSE NoBook]
           /\ cache = [b \in Books \cup {OtherBook} |->
                          IF b = 1 /\ hit THEN Entry(t, a)
                          ELSE IF b = OtherBook THEN Entry(MaxCopies, MaxCopies - 1)
                          ELSE Miss]
    /\ \E bd \in Dates, rd \in OptDates, n \in {0, 1} :
           rec = [r \in RecIds \cup {OtherRec} |->
                     IF r <= n THEN RecRow(1, bd, rd)
                     ELSE IF r = OtherRec THEN RecRow(OtherBook, bd, Null) ELSE NoRec]
    /\ listCache = [k \in ListKeys |-> ListMiss]
    /\ redisUp = TRUE
    /\ now \in Dates
    /\ req = [p \in Workers |-> Idle]
    /\ last = NoLast

NextFrame ==
    \E p \in {1} : Borrow(p) \/ Return(p) \/ Retrieve(p) \/ BookList(p)

SpecFrame == InitFrame /\ [][NextFrame]_vars

\* ---- the claims ----

AllDone == \A p \in Workers : req[p].pc = "done"
Done(p, op) == req[p].pc = "done" /\ req[p].op = op
Mutators == {"create_borrow", "return_book", "book_update"}
MutationInFlight == \E p \in Workers : req[p].op \in Mutators /\ req[p].pc # "done"

\* C1: for every Book, 0 <= available_copies <= total_copies in every
\* reachable state.
C1_CopiesInRange ==
    \A b \in Books : book[b].ex => 0 <= book[b].avail /\ book[b].avail <= book[b].total

\* C2: when N borrow requests for one Book run concurrently and the Book
\* starts with available_copies = k < N, exactly k of them create a
\* BorrowRecord, the others fail with the no-copies error, and the final
\* available_copies is 0.  (In this run the Book starts with k = total_copies.)
C2_ExactlyKSucceed ==
    (AllDone /\ book[1].total < NumWorkers) =>
        /\ Cardinality({p \in Workers : req[p].made # 0}) = book[1].total
        /\ \A p \in Workers : req[p].made = 0 => req[p].resp = "400:no_copies"
        /\ book[1].avail = 0

\* C3: a create_borrow that finds the Book with available_copies = 0, in the
\* serializer's check or in the view's, ends there with a 400 (the no-copies
\* error whenever its dates are valid), inserts no BorrowRecord and writes
\* no Book row.
C3_ZeroCopiesRejected ==
    [][\A p \in Workers :
         (/\ req[p].pc \in {"cb_validate", "cb_get"}
          /\ req'[p] # req[p]
          /\ book[req[p].book].ex
          /\ book[req[p].book].avail = 0)
         => /\ req'[p].pc = "done"
            /\ req'[p].resp \in {"400:no_copies", "400:invalid"}
            /\ (req[p].pc = "cb_get" \/ req[p].bd <= req[p].dd) => req'[p].resp = "400:no_copies"
            /\ req'[p].made = 0
            /\ book' = book
            /\ rec' = rec]_vars

C3_Witness ==
    \E p \in Workers :
        /\ Done(p, "create_borrow")
        /\ req[p].resp = "400:no_copies"
        /\ req[p].made = 0
        /\ book[req[p].book].avail = 0

\* C4: when return_book is requested twice for one record, the second
\* request fails with the already-returned error and the Book's
\* available_copies rises by exactly 1.  (In this run the Book starts with
\* available_copies = total_copies - 1.)
C4_SecondReturnFails ==
    AllDone =>
        /\ Cardinality({p \in Workers : req[p].resp # "400:returned"}) = 1
        /\ book[1].avail = book[1].total

\* C5: once the mutations of a Book have completed, a detail read never
\* returns the pre-mutation available_copies: an entry in the detail cache,
\* which the next read returns, equals the stored row.
C5_NoStaleDetail ==
    \A b \in Books :
        (cache[b].hit /\ ~MutationInFlight) => cache[b].avail = book[b].avail

\* C6: create_borrow and return_book are all-or-nothing: a request that
\* failed leaves available_copies and the BorrowRecords as they were before
\* it (requests one at a time: la is the available_copies it found).
C6_AllOrNothing ==
    \A p \in Workers :
        /\ (Done(p, "create_borrow") /\ req[p].resp = "500") =>
               req[p].made = 0 /\ book[req[p].book].avail = req[p].la
        /\ (Done(p, "return_book") /\ req[p].resp = "500") =>
               rec[req[p].rid].rd = Null /\ book[req[p].book].avail = req[p].la

\* C7: Returned is terminal: once a record's return_date is set, no request
\* on the borrows endpoints clears or changes it.
C7_ReturnedTerminal ==
    [][\A r \in RecIds : (rec[r].ex /\ rec[r].rd # Null) => rec'[r].rd = rec[r].rd]_vars

\* C8: a successful create_borrow followed, with no request in between, by
\* a successful return_book of the created record restores the Book's
\* available_copies to its value before the borrow.
C8_RoundTrip ==
    \A p \in Workers :
        (/\ Done(p, "return_book")
         /\ req[p].resp = "200"
         /\ last.made # 0
         /\ last.made = req[p].rid)
        => book[req[p].book].avail = last.la

C8_Witness ==
    \E p \in Workers :
        /\ Done(p, "return_book")
        /\ req[p].resp = "200"
        /\ last.made # 0
        /\ last.made = req[p].rid
        /\ book[req[p].book].avail = last.la
        /\ last.la > 0

\* C9: a return_book whose return_date is earlier than the record's
\* borrow_date is rejected with a 400 and changes nothing.
C9_EarlyReturnRejected ==
    \A p \in Workers :
        (/\ Done(p, "return_book")
         /\ req[p].bd # 0
         /\ req[p].rd # Null
         /\ req[p].rd < req[p].bd)
        => /\ req[p].resp = "400:invalid"
           /\ rec[req[p].rid].rd = Null

\* C10: every successful create_borrow decrements the Book's
\* available_copies by exactly 1 and inserts one BorrowRecord whose
\* return_date is null, whatever fields the client supplied.
C10_BorrowEffect ==
    \A p \in Workers :
        (Done(p, "create_borrow") /\ req[p].resp = "201") =>
            /\ req[p].made # 0
            /\ rec[req[p].made].ex
            /\ rec[req[p].made].rd = Null
            /\ book[req[p].book].avail = req[p].la - 1

\* C11: a create_borrow that names a Book which does not exist fails with
\* 404 (NotFound) and creates no BorrowRecord.
C11_MissingBookNotFound ==
    \A p \in Workers :
        (Done(p, "create_borrow") /\ ~book[req[p].book].ex) =>
            /\ req[p].resp = "404"
            /\ req[p].made = 0

\* C12: a list read with query parameters q returns the result of
\* evaluating q on the stored rows, never a result that a list read with
\* other query parameters left in the cache.
C12_ListAnswersItsQuery ==
    \A p \in Workers :
        (Done(p, "book_list") /\ req[p].resp = "200") =>
            req[p].rows = Evaluate(req[p].q)

\* C13: the cache is never a correctness dependency: a detail read, a
\* create_borrow or a return_book served while Redis is unreachable is
\* answered as it is when Redis is reachable; no failure of a cache call
\* (the only source of a 500 in these three handlers) reaches the client.
C13_CacheFailureHidden ==
    \A p \in Workers :
        (req[p].pc = "done" /\ req[p].op \in {"retrieve", "create_borrow", "return_book"})
        => req[p].resp # "500"

\* C14: every accepted Book create, PUT or PATCH leaves the stored row with
\* available_copies <= total_copies, and a Book update is rejected by the
\* check only when the row it would store has available_copies >
\* total_copies.
C14_BookWritesValidated ==
    \A p \in Workers :
        /\ req[p].pc \in {"bc_cache", "bu_cache"} =>
               book[req[p].book].avail <= book[req[p].book].total
        /\ (Done(p, "book_update") /\ req[p].resp = "400:invalid") =>
               req[p].la > req[p].lt

\* C15: from a Book with total_copies = available_copies = 2, requests one
\* at a time: the first borrow succeeds and leaves available_copies = 1 and
\* its record's return_date null; the second succeeds and leaves
\* available_copies = 0; a third fails with the no-copies 400 and creates no
\* record; returning the first record then leaves available_copies = 1 and
\* that record's return_date at the current date.
C15_Scenario ==
    \A p \in Workers :
        /\ (Done(p, "create_borrow") /\ ~rec[2].ex) =>
               /\ req[p].resp = "201"
               /\ req[p].made = 1
               /\ book[1].avail = 1
               /\ rec[1].ex /\ rec[1].rd = Null
        /\ (Done(p, "create_borrow") /\ req[p].made = 2 /\ rec[1].rd = Null) =>
               /\ req[p].resp = "201"
               /\ book[1].avail = 0
               /\ rec[2].rd = Null
        /\ (Done(p, "create_borrow") /\ req[p].made = 0 /\ rec[1].rd = Null) =>
               /\ req[p].resp = "400:no_copies"
               /\ book[1].avail = 0
               /\ \A r \in RecIds : rec[r].ex => r \in {1, 2}
        /\ (Done(p, "return_book") /\ rec[1].ex) =>
               /\ req[p].resp \in {"200", "400:returned"}
               /\ rec[1].rd # Null
        /\ (Done(p, "return_book") /\ req[p].resp = "200" /\ rec[2].ex /\ rec[2].rd = Null) =>
               /\ book[1].avail = 1
               /\ rec[1].rd = now

C15_Witness ==
    \E p \in Workers :
        /\ Done(p, "return_book")
        /\ req[p].resp = "200"
        /\ rec[2].ex /\ rec[2].rd = Null
        /\ book[1] = BookRow(2, 1)
        /\ rec[1].rd = now

\* C16: return_book never raises available_copies above total_copies: a
\* return that found the Book with available_copies = total_copies (after a
\* Book update) does not store a larger available_copies.
C16_ReturnBounded ==
    \A p \in Workers :
        (req[p].pc = "rb_cache" /\ req[p].la = req[p].lt) =>
            book[req[p].book].avail <= book[req[p].book].total

\* C17: a successful return_book stores the return_date the request
\* supplied, and the current date when the request supplied none.
C17_ReturnDateSupplied ==
    \A p \in Workers :
        (Done(p, "return_book") /\ req[p].resp = "200") =>
            rec[req[p].rid].rd = (IF req[p].rd # Null THEN req[p].rd ELSE now)

\* C18: conservation of copies: from a state where every Book has
\* total_copies - available_copies = the number of its Active records, the
\* equality holds again after every request on the borrows endpoints (POST,
\* return_book, PUT, PATCH, DELETE), served one at a time with no Book row
\* written directly.
C18_Conservation ==
    (\A p \in Workers : req[p].pc \in {"idle", "done"}) =>
        \A b \in Books :
            book[b].ex => book[b].total - book[b].avail = Cardinality(ActiveRecords(b))

\* C19: with requests served one at a time and Redis reachable, an entry
\* under the detail key of a Book equals the stored row of that Book
\* whenever no request is being served, after any sequence of Book
\* create / update / destroy, create_borrow, return_book and retrieve.
C19_DetailEntryIsRow ==
    (\A p \in Workers : req[p].pc \in {"idle", "done"}) =>
        \A b \in Books :
            cache[b].hit =>
                /\ book[b].ex
                /\ cache[b].total = book[b].total
                /\ cache[b].avail = book[b].avail

\* C20: frame: every step of a create_borrow or return_book for a record of
\* Book X leaves the row of every other Book, every other BorrowRecord and
\* the cached detail entry of every other Book as they were; every step of
\* a list or detail read leaves all Book and BorrowRecord rows as they were.
C20_Frame ==
    [][\A p \in Workers :
         /\ (req'[p] # req[p] /\ req'[p].op \in {"create_borrow", "return_book"}) =>
                /\ \A b \in DOMAIN book : b # req'[p].book => book'[b] = book[b]
                /\ \A b \in DOMAIN cache : b # req'[p].book => cache'[b] = cache[b]
                /\ \A r \in DOMAIN rec :
                       r \notin {req'[p].rid, req'[p].made} => rec'[r] = rec[r]
         /\ (req'[p] # req[p] /\ req'[p].op \in {"retrieve", "book_list"}) =>
                book' = book /\ rec' = rec]_vars

C20_Witness ==
    \E p \in Workers :
        /\ Done(p, "return_book")
        /\ req[p].resp = "200"
        /\ req[p].book # OtherBook
        /\ rec[req[p].rid].rd # Null
        /\ book[OtherBook].ex
        /\ cache[OtherBook].hit
        /\ rec[OtherRec].ex /\ rec[OtherRec].rd = Null
====
